---------------------------- MODULE Spec2Model ----------------------------
(***************************************************************************)
(* A model of the rule-based Python analyzer (analyzer_py.js,              *)
(* analyzePythonCode) and of the page script that drives an analyzer       *)
(* (minimal.js: computeHealthFromResults, renderResults and the click /    *)
(* upload handlers).                                                       *)
(*                                                                         *)
(* A text is a sequence of one-character strings.  Regular expressions of  *)
(* the source are modelled by what they match, position by position, over  *)
(* the ASCII characters named in WordChars, WhiteSpace and the punctuation *)
(* the line pools use.                                                     *)
(***************************************************************************)
EXTENDS Integers, Sequences, FiniteSets, TLC

VARIABLES
    text,           \* the argument of analyzePythonCode
    lines,          \* text.split("\n")
    pc,             \* position inside analyzePythonCode
    i,              \* index (1-based) of the line the per-line scan is at
    issues,         \* the issues array
    hasTabs,
    hasSpaces,
    indentLevels,   \* Set of indentation widths
    importedNames,  \* Set of names, in insertion order
    importLines,    \* Map text -> line numbers, in insertion order
    bracketStack,   \* stack of [ch, line, col]
    results,        \* the argument of computeHealthFromResults
    score,          \* its return value, <<>> before the call
    codeInput,      \* codeInput.value
    output,         \* what output.innerHTML shows
    issueCount,     \* issueCountEl.textContent
    healthNum,      \* healthNum.textContent
    pendingRead,    \* a FileReader started by the upload handler
    lastEvent,      \* the UI event handled last
    engineThrew,    \* the engine call of the last event threw
    escaped         \* that exception left the handler uncaught

engineVars == <<text, lines, pc, i, issues, hasTabs, hasSpaces, indentLevels,
                importedNames, importLines, bracketStack>>
healthVars == <<results, score>>
uiVars == <<codeInput, output, issueCount, healthNum, pendingRead, lastEvent,
            engineThrew, escaped>>
vars == <<engineVars, healthVars, uiVars>>

(***************************************************************************)
(* Characters                                                              *)
(***************************************************************************)
Letters ==
    {"a","b","c","d","e","f","g","h","i","j","k","l","m","n","o","p","q","r",
     "s","t","u","v","w","x","y","z",
     "A","B","C","D","E","F","G","H","I","J","K","L","M","N","O","P","Q","R",
     "S","T","U","V","W","X","Y","Z"}
Digits == {"0","1","2","3","4","5","6","7","8","9"}
\* \w
WordChars == Letters \cup Digits \cup {"_"}
\* \s
WhiteSpace == {" ", "\t", "\n", "\r", "\f"}
\* what . does not match
LineTerminators == {"\n", "\r"}

IsWord(c) == c \in WordChars
IsWS(c) == c \in WhiteSpace

\* s.substring(a-1, b) with 1-based inclusive bounds
Sub(s, a, b) == IF a > b THEN <<>> ELSE SubSeq(s, a, b)

\* the literal w occurs in s at position p
MatchAt(s, p, w) ==
    /\ p >= 1
    /\ p + Len(w) - 1 <= Len(s)
    /\ \A k \in 1..Len(w) : s[p + k - 1] = w[k]

\* \b holds between s[p-1] and s[p]
BoundaryAt(s, p) ==
    LET before == p > 1 /\ p - 1 <= Len(s) /\ IsWord(s[p - 1])
        after == p >= 1 /\ p <= Len(s) /\ IsWord(s[p])
    IN before /= after

\* first position >= p whose character is not in the class cls (Len(s)+1 if none)
RECURSIVE SkipClass(_, _, _)
SkipClass(s, p, cls) ==
    IF p <= Len(s) /\ s[p] \in cls THEN SkipClass(s, p + 1, cls) ELSE p

SkipWS(s, p) == SkipClass(s, p, WhiteSpace)
SkipWord(s, p) == SkipClass(s, p, WordChars)

\* first position >= p whose character is in cls (Len(s)+1 if none)
RECURSIVE FindClass(_, _, _)
FindClass(s, p, cls) ==
    IF p <= Len(s) /\ s[p] \notin cls THEN FindClass(s, p + 1, cls) ELSE p

\* String.prototype.trim
RECURSIVE TrimEnd(_)
TrimEnd(s) ==
    IF Len(s) > 0 /\ IsWS(s[Len(s)]) THEN TrimEnd(Sub(s, 1, Len(s) - 1)) ELSE s

Trim(s) == TrimEnd(Sub(s, SkipWS(s, 1), Len(s)))

\* String.prototype.split(c) for a one-character separator
RECURSIVE SplitFrom(_, _, _, _)
SplitFrom(s, c, p, cur) ==
    IF p > Len(s) THEN <<cur>>
    ELSE IF s[p] = c THEN <<cur>> \o SplitFrom(s, c, p + 1, <<>>)
    ELSE SplitFrom(s, c, p + 1, Append(cur, s[p]))

Split(s, c) == SplitFrom(s, c, 1, <<>>)

\* Array.prototype.join("\n"), the inverse of split("\n")
RECURSIVE JoinLines(_)
JoinLines(ls) ==
    IF Len(ls) = 0 THEN <<>>
    ELSE IF Len(ls) = 1 THEN ls[1]
    ELSE ls[1] \o <<"\n">> \o JoinLines(Tail(ls))

\* raw.replace(/\r$/, "")
StripCR(raw) ==
    IF Len(raw) > 0 /\ raw[Len(raw)] = "\r" THEN Sub(raw, 1, Len(raw) - 1) ELSE raw

\* s.match(/^(\s*)/)[1]
IndentOf(s) == Sub(s, 1, SkipWS(s, 1) - 1)

Has(s, c) == \E k \in 1..Len(s) : s[k] = c

\* indent.replace(/\t/g, "    ").length
RECURSIVE TabWidth(_)
TabWidth(s) ==
    IF Len(s) = 0 THEN 0
    ELSE (IF s[1] = "\t" THEN 4 ELSE 1) + TabWidth(Tail(s))

EndsWith(s, c) == Len(s) > 0 /\ s[Len(s)] = c


(***************************************************************************)
(* The finding record and push (analyzer_py.js, lines 9-16).  message is   *)
(* the text of the template literal and arg the values it interpolates;    *)
(* line and snippet are <<>> for null and <<v>> for a value v.             *)
(***************************************************************************)
Null == <<>>

Defaults ==
    [rule |-> "Unknown", severity |-> "low", message |-> "", arg |-> <<>>,
     line |-> Null, snippet |-> Null]

Merge(obj) ==
    [f \in DOMAIN Defaults |-> IF f \in DOMAIN obj THEN obj[f] ELSE Defaults[f]]

Push(iss, obj) == Append(iss, Merge(obj))

RECURSIVE PushAll(_, _)
PushAll(iss, objs) ==
    IF Len(objs) = 0 THEN iss ELSE PushAll(Push(iss, objs[1]), Tail(objs))

(***************************************************************************)
(* Keywords                                                                *)
(***************************************************************************)
Kw_def == <<"d","e","f">>
Kw_class == <<"c","l","a","s","s">>
Kw_if == <<"i","f">>
Kw_elif == <<"e","l","i","f">>
Kw_else == <<"e","l","s","e">>
Kw_for == <<"f","o","r">>
Kw_while == <<"w","h","i","l","e">>
Kw_try == <<"t","r","y">>
Kw_except == <<"e","x","c","e","p","t">>
Kw_with == <<"w","i","t","h">>
Kw_import == <<"i","m","p","o","r","t">>
Kw_from == <<"f","r","o","m">>
Kw_return == <<"r","e","t","u","r","n">>
Kw_as == <<"a","s">>
Kw_is == <<"i","s">>
Kw_print == <<"p","r","i","n","t">>
Kw_eval == <<"e","v","a","l">>
Kw_exec == <<"e","x","e","c">>
Kw_TODO == <<"T","O","D","O">>
Kw_FIXME == <<"F","I","X","M","E">>

\* line 78
BlockHeaders ==
    {Kw_def, Kw_class, Kw_if, Kw_elif, Kw_else, Kw_for, Kw_while, Kw_try,
     Kw_except, Kw_with}

\* lines 26-28
BUILTINS ==
    {<<"l","i","s","t">>, <<"d","i","c","t">>, <<"s","e","t">>, <<"s","t","r">>, <<"i","n","t">>, <<"f","l","o","a","t">>, <<"i","n","p","u","t">>, <<"l","e","n">>, <<"o","p","e","n">>,
     Kw_print, <<"m","a","p">>, <<"f","i","l","t","e","r">>, <<"s","u","m">>, <<"m","i","n">>, <<"m","a","x">>}

\* lines 32-34
opens == {"(", "[", "{"}
closes == {")", "]", "}"}
bracketPairs(ch) == IF ch = ")" THEN "(" ELSE IF ch = "]" THEN "[" ELSE "{"

(***************************************************************************)
(* Per-line rules (lines 43-148): each takes the CR-stripped line.         *)
(***************************************************************************)
\* /[ \t]+$/
TrailingWhitespace(t) == Len(t) > 0 /\ t[Len(t)] \in {" ", "\t"}

\* lines 61-62
BadIndentation(t) ==
    LET indent == IndentOf(t)
    IN /\ Len(indent) > 0
       /\ ~Has(indent, "\t")
       /\ Len(indent) % 4 /= 0

\* /^\s*(def|class|if|elif|else|for|while|try|except|with)\b/
IsBlockHeader(t) ==
    LET p0 == SkipWS(t, 1)
    IN \E kw \in BlockHeaders :
          MatchAt(t, p0, kw) /\ BoundaryAt(t, p0 + Len(kw))

\* /^\s*#/
IsCommentLine(t) ==
    LET p0 == SkipWS(t, 1) IN p0 <= Len(t) /\ t[p0] = "#"

\* lines 78-93
MissingColon(t) ==
    /\ IsBlockHeader(t)
    /\ ~IsCommentLine(t)
    /\ ~EndsWith(Trim(Split(t, "#")[1]), ":")

\* /^\s*except\s*:\s*(#.*)?$/
BareExcept(t) ==
    LET p0 == SkipWS(t, 1)
        q1 == SkipWS(t, p0 + Len(Kw_except))
        q2 == SkipWS(t, q1 + 1)
    IN /\ MatchAt(t, p0, Kw_except)
       /\ q1 <= Len(t) /\ t[q1] = ":"
       /\ \/ q2 = Len(t) + 1
          \/ /\ t[q2] = "#"
             /\ \A k \in (q2 + 1)..Len(t) : t[k] \notin LineTerminators

\* /\b(TODO|FIXME)\b/
TodoFixme(t) ==
    \E p \in 1..Len(t) : \E w \in {Kw_TODO, Kw_FIXME} :
        BoundaryAt(t, p) /\ MatchAt(t, p, w) /\ BoundaryAt(t, p + Len(w))

\* /\b(eval|exec)\s*\(/
EvalExec(t) ==
    \E p \in 1..Len(t) : \E w \in {Kw_eval, Kw_exec} :
        /\ BoundaryAt(t, p)
        /\ MatchAt(t, p, w)
        /\ LET q == SkipWS(t, p + Len(w)) IN q <= Len(t) /\ t[q] = "("

\* '.*' or ".*" starting at q
QuotedAt(t, q, quote) ==
    /\ t[q] = quote
    /\ \E r \in (q + 1)..Len(t) :
          t[r] = quote /\ \A k \in (q + 1)..(r - 1) : t[k] \notin LineTerminators

\* /\bis\s+(-?\d+|'.*'|".*")/
IsComparisonToLiteral(t) ==
    \E p \in 1..Len(t) :
        /\ BoundaryAt(t, p)
        /\ MatchAt(t, p, Kw_is)
        /\ LET a == p + Len(Kw_is)
               q == SkipWS(t, a)
           IN /\ q > a
              /\ q <= Len(t)
              /\ \/ t[q] \in Digits
                 \/ t[q] = "-" /\ q + 1 <= Len(t) /\ t[q + 1] \in Digits
                 \/ QuotedAt(t, q, "'")
                 \/ QuotedAt(t, q, "\"")

\* line 140
MaxLineLength == 88
LineTooLong(t) == Len(t) > MaxLineLength

(***************************************************************************)
(* Import collection (lines 150-171)                                       *)
(***************************************************************************)
\* where the group of  \s+(.+)  starts when the keyword ends before a;
\* 0 when it does not match.  \s+ is greedy and gives characters back only
\* when the white space runs to the end of the line.
RestStart(t, a) ==
    LET q == SkipWS(t, a)
        back == {k \in (a + 1)..Len(t) : t[k] \notin LineTerminators}
    IN IF q = a THEN 0
       ELSE IF q <= Len(t) THEN q
       ELSE IF back = {} THEN 0
       ELSE CHOOSE k \in back : \A m \in back : m <= k

\* the text (.+) captures from position st
RestGroup(t, st) == Sub(t, st, FindClass(t, st, LineTerminators) - 1)

\* [a-zA-Z0-9_.]
ModuleChars == WordChars \cup {"."}

\* /^\s*from\s+([a-zA-Z0-9_.]+)\s+import\s+(.+)/ : <<>> or <<group 2>>
impFrom(t) ==
    LET p0 == SkipWS(t, 1)
        a == p0 + Len(Kw_from)
        q1 == SkipWS(t, a)
        m1 == SkipClass(t, q1, ModuleChars)
        q2 == SkipWS(t, m1)
        st == RestStart(t, q2 + Len(Kw_import))
    IN IF /\ MatchAt(t, p0, Kw_from)
          /\ q1 > a
          /\ m1 > q1
          /\ q2 > m1
          /\ MatchAt(t, q2, Kw_import)
          /\ st > 0
       THEN <<RestGroup(t, st)>>
       ELSE <<>>

\* /^\s*import\s+(.+)/ : <<>> or <<group 1>>
impSimple(t) ==
    LET p0 == SkipWS(t, 1)
        st == RestStart(t, p0 + Len(Kw_import))
    IN IF MatchAt(t, p0, Kw_import) /\ st > 0
       THEN <<RestGroup(t, st)>>
       ELSE <<>>

\* s.split(/\s+as\s+/)[0]
BeforeAs(s) ==
    LET hit(p) ==
            /\ IsWS(s[p])
            /\ LET q == SkipWS(s, p)
               IN /\ MatchAt(s, q, Kw_as)
                  /\ q + Len(Kw_as) <= Len(s)
                  /\ IsWS(s[q + Len(Kw_as)])
        hits == {p \in 1..Len(s) : hit(p)}
    IN IF hits = {} THEN s
       ELSE Sub(s, 1, (CHOOSE p \in hits : \A m \in hits : p <= m) - 1)

\* parts.map(s => s.trim().split(/\s+as\s+/)[0])
RECURSIVE MapBeforeAs(_)
MapBeforeAs(parts) ==
    IF Len(parts) = 0 THEN <<>>
    ELSE <<BeforeAs(Trim(parts[1]))>> \o MapBeforeAs(Tail(parts))

\* rest.split(",").map(s => s.trim().split(/\s+as\s+/)[0])
ImportPieces(group) == MapBeforeAs(Split(Trim(Split(group, "#")[1]), ","))

\* Set.prototype.add, keeping insertion order
SetAdd(set, n) ==
    IF \E k \in 1..Len(set) : set[k] = n THEN set ELSE Append(set, n)

\* lines 159-161: every non-empty piece is added
RECURSIVE AddFromNames(_, _)
AddFromNames(set, pieces) ==
    IF Len(pieces) = 0 THEN set
    ELSE AddFromNames(
            IF Len(pieces[1]) > 0 THEN SetAdd(set, pieces[1]) ELSE set,
            Tail(pieces))

\* lines 166-170: the part before the first "." of every piece, if non-empty
RECURSIVE AddSimpleNames(_, _)
AddSimpleNames(set, pieces) ==
    IF Len(pieces) = 0 THEN set
    ELSE LET base == Split(pieces[1], ".")[1]
         IN AddSimpleNames(
                IF Len(base) > 0 THEN SetAdd(set, base) ELSE set,
                Tail(pieces))

\* importLines.set(trimmed, importLines.get(trimmed) || []);
\* importLines.get(trimmed).push(ln)
MapPushLine(map, key, ln) ==
    IF \E k \in 1..Len(map) : map[k].text = key
    THEN [k \in 1..Len(map) |->
            IF map[k].text = key
            THEN [map[k] EXCEPT !.lns = Append(@, ln)]
            ELSE map[k]]
    ELSE Append(map, [text |-> key, lns |-> <<ln>>])


(***************************************************************************)
(* Shadowing of builtins (lines 173-212)                                   *)
(***************************************************************************)
IdentStart == Letters \cup {"_"}

\* the identifier [A-Za-z_]\w* at p0 followed by \s* and a character of
\* follow: <<>> or <<name>>
IdentThen(t, p0, follow) ==
    LET e == SkipWord(t, p0)
        q == SkipWS(t, e)
    IN IF /\ p0 <= Len(t)
          /\ t[p0] \in IdentStart
          /\ q <= Len(t)
          /\ t[q] \in follow
       THEN <<Sub(t, p0, e - 1)>>
       ELSE <<>>

\* /^\s*([A-Za-z_]\w*)\s*=/
assignMatch(t) == IdentThen(t, SkipWS(t, 1), {"="})

\* the keyword kw, then \s+, then IdentThen
AfterKeyword(t, kw, follow) ==
    LET p0 == SkipWS(t, 1)
        a == p0 + Len(kw)
        q == SkipWS(t, a)
    IN IF MatchAt(t, p0, kw) /\ q > a THEN IdentThen(t, q, follow) ELSE <<>>

\* /^\s*def\s+([A-Za-z_]\w*)\s*\(/
defMatch(t) == AfterKeyword(t, Kw_def, {"("})

\* /^\s*class\s+([A-Za-z_]\w*)\s*[:(]/
classMatch(t) == AfterKeyword(t, Kw_class, {":", "("})

ShadowFinding(m, what, ln, t) ==
    IF Len(m) = 1 /\ m[1] \in BUILTINS
    THEN <<[rule |-> "Shadowing Builtin", severity |-> "medium",
            message |-> what, arg |-> <<m[1]>>, line |-> <<ln>>,
            snippet |-> <<t>>]>>
    ELSE <<>>

(***************************************************************************)
(* Bracket matching (lines 217-235)                                        *)
(***************************************************************************)
\* the test of line 223 without its second half
MismatchEmptyOnly(stack, ch) ==
    Len(stack) = 0

\* line 223: the closer ch finds no opener of its kind on top
Mismatch(stack, ch) ==
    Len(stack) = 0 \/ stack[Len(stack)].ch /= bracketPairs(ch)

\* the finding with the loop index i in place of ln = i + 1
CloserFindingZeroBased(ch, ln, t) ==
    [rule |-> "Unmatched Bracket", severity |-> "high",
     message |-> "Unmatched bracket '${ch}'.", arg |-> <<ch>>,
     line |-> <<ln - 1>>, snippet |-> <<t>>]

CloserFinding(ch, ln, t) ==
    [rule |-> "Unmatched Bracket", severity |-> "high",
     message |-> "Unmatched bracket '${ch}'.", arg |-> <<ch>>,
     line |-> <<ln>>, snippet |-> <<t>>]

\* the loop over the characters of one line, from column j on;
\* st = [stack, found]
RECURSIVE BracketScan(_, _, _, _)
BracketScan(t, ln, j, st) ==
    IF j > Len(t) THEN st
    ELSE LET ch == t[j]
         IN IF ch \in opens
            THEN BracketScan(t, ln, j + 1,
                    [st EXCEPT !.stack =
                        Append(@, [ch |-> ch, line |-> ln, col |-> j])])
            ELSE IF ch \in closes
            THEN IF Mismatch(st.stack, ch)
                 THEN BracketScan(t, ln, j + 1,
                        [st EXCEPT !.found = Append(@, CloserFinding(ch, ln, t))])
                 ELSE BracketScan(t, ln, j + 1,
                        [st EXCEPT !.stack = Sub(@, 1, Len(@) - 1)])
            ELSE BracketScan(t, ln, j + 1, st)

(***************************************************************************)
(* One turn of the per-line loop (lines 37-236)                            *)
(***************************************************************************)
When(cond, obj) == IF cond THEN <<obj>> ELSE <<>>

LineFinding(rule, severity, message, arg, ln, t) ==
    [rule |-> rule, severity |-> severity, message |-> message, arg |-> arg,
     line |-> <<ln>>, snippet |-> <<t>>]

\* the findings of lines 43-148 for the CR-stripped line t, in source order
PatternFindings(t, ln) ==
    When(TrailingWhitespace(t),
         LineFinding("Trailing Whitespace", "low",
                     "Trailing whitespace found.", <<>>, ln, t))
    \o When(BadIndentation(t),
         LineFinding("Indentation", "medium",
                     "Indentation not a multiple of 4 spaces (PEP8 recommends 4).",
                     <<>>, ln, t))
    \o When(MissingColon(t),
         LineFinding("Missing Colon", "high",
                     "Block header missing ':' at the end.", <<>>, ln, t))
    \o When(BareExcept(t),
         LineFinding("Bare Except", "high",
                     "Bare 'except:' used. Prefer 'except Exception:' or specific exceptions.",
                     <<>>, ln, t))
    \o When(TodoFixme(t),
         LineFinding("TODO/FIXME", "low",
                     "TODO/FIXME marker found. Complete pending work or remove marker before release.",
                     <<>>, ln, t))
    \o When(EvalExec(t),
         LineFinding("Use of eval/exec", "high",
                     "Use of eval/exec detected - this can be insecure and error-prone.",
                     <<>>, ln, t))
    \o When(IsComparisonToLiteral(t),
         LineFinding("Is Comparison to Literal", "medium",
                     "Using 'is' to compare to literal detected; use '==' for value equality.",
                     <<>>, ln, t))
    \o When(LineTooLong(t),
         LineFinding("Line Too Long", "low",
                     "Line length ${trimmed.length} exceeds recommended 88 characters.",
                     <<Len(t)>>, ln, t))

ShadowFindings(t, ln) ==
    ShadowFinding(assignMatch(t), "Variable '${name}' shadows a Python builtin.", ln, t)
    \o ShadowFinding(defMatch(t), "Function '${name}' shadows a Python builtin.", ln, t)
    \o ShadowFinding(classMatch(t), "Class '${name}' shadows a Python builtin.", ln, t)

\* lines 152-171: the new importedNames
CollectNames(set, t) ==
    IF Len(impFrom(t)) = 1
    THEN AddFromNames(set, ImportPieces(impFrom(t)[1]))
    ELSE IF Len(impSimple(t)) = 1
    THEN AddSimpleNames(set, ImportPieces(impSimple(t)[1]))
    ELSE set

\* lines 152-171: the new importLines
CollectLines(map, t, ln) ==
    IF Len(impFrom(t)) = 1 \/ Len(impSimple(t)) = 1
    THEN MapPushLine(map, t, ln)
    ELSE map

ScanLine ==
    /\ pc = "scan"
    /\ i <= Len(lines)
    /\ LET raw == lines[i]
           ln == i
           trimmed == StripCR(raw)
           indent == IndentOf(trimmed)
           indentLevel == TabWidth(indent)
           br == BracketScan(trimmed, ln, 1,
                             [stack |-> bracketStack, found |-> <<>>])
       IN /\ hasTabs' = (hasTabs \/ Has(indent, "\t"))
          /\ hasSpaces' = (hasSpaces \/ Has(indent, " "))
          /\ indentLevels' =
                IF indentLevel > 0 THEN indentLevels \cup {indentLevel}
                ELSE indentLevels
          /\ importedNames' = CollectNames(importedNames, trimmed)
          /\ importLines' = CollectLines(importLines, trimmed, ln)
          /\ bracketStack' = br.stack
          /\ issues' = PushAll(issues,
                               PatternFindings(trimmed, ln)
                               \o ShadowFindings(trimmed, ln)
                               \o br.found)
    /\ i' = i + 1
    /\ pc' = IF i = Len(lines) THEN "mixed" ELSE "scan"
    /\ UNCHANGED <<text, lines, healthVars, uiVars>>


(***************************************************************************)
(* Post-scan passes (lines 238-413)                                        *)
(***************************************************************************)
FileFinding(rule, severity, message, arg) ==
    [rule |-> rule, severity |-> severity, message |-> message, arg |-> arg,
     line |-> Null, snippet |-> Null]

\* the order of the blocks of lines 238-416: the pass that follows pass p
NextPassSwapped(p) ==
    CASE p = "mixed" -> "levels"
      [] p = "levels" -> "dupimport"
      [] p = "dupimport" -> "unusedimport"
      [] p = "unusedimport" -> "leftover"
      [] p = "leftover" -> "finalnewline"
      [] p = "finalnewline" -> "nesting"
      [] p = "nesting" -> "prints"
      [] p = "prints" -> "unreachable"
      [] p = "unreachable" -> "noncode"
      [] p = "noncode" -> "unusedvar"
      [] p = "unusedvar" -> "return"

NextPass(p) ==
    CASE p = "mixed" -> "levels"
      [] p = "levels" -> "dupimport"
      [] p = "dupimport" -> "unusedimport"
      [] p = "unusedimport" -> "finalnewline"
      [] p = "finalnewline" -> "leftover"
      [] p = "leftover" -> "nesting"
      [] p = "nesting" -> "prints"
      [] p = "prints" -> "unreachable"
      [] p = "unreachable" -> "noncode"
      [] p = "noncode" -> "unusedvar"
      [] p = "unusedvar" -> "return"

Step(next) == /\ pc' = next
              /\ UNCHANGED <<text, lines, i, hasTabs, hasSpaces, indentLevels,
                             importedNames, importLines, healthVars, uiVars>>

\* lines 238-247
MixedTabsSpaces ==
    /\ pc = "mixed"
    /\ issues' = PushAll(issues,
          When(hasTabs /\ hasSpaces,
               FileFinding("Mixed Tabs/Spaces", "high",
                   "Mixed use of tabs and spaces for indentation detected.", <<>>)))
    /\ UNCHANGED bracketStack
    /\ Step(NextPass("mixed"))

\* line 250
MaxIndentLevels == 6

\* lines 249-258
InconsistentLevels ==
    /\ pc = "levels"
    /\ issues' = PushAll(issues,
          When(Cardinality(indentLevels) > MaxIndentLevels,
               FileFinding("Inconsistent Indentation Levels", "medium",
                   "Many distinct indentation levels detected (may indicate inconsistency).",
                   <<>>)))
    /\ UNCHANGED bracketStack
    /\ Step(NextPass("levels"))

\* the finding with the last line of the entry in place of arr[0]
DuplicateFindingLast(entry) ==
    When(Len(entry.lns) > 1,
         [rule |-> "Duplicate Import", severity |-> "low",
          message |-> "Import appears multiple times (${arr.length}).",
          arg |-> <<Len(entry.lns)>>, line |-> <<entry.lns[Len(entry.lns)]>>,
          snippet |-> <<entry.text>>])

\* lines 262-270, for one entry of importLines
DuplicateFinding(entry) ==
    When(Len(entry.lns) > 1,
         [rule |-> "Duplicate Import", severity |-> "low",
          message |-> "Import appears multiple times (${arr.length}).",
          arg |-> <<Len(entry.lns)>>, line |-> <<entry.lns[1]>>,
          snippet |-> <<entry.text>>])

RECURSIVE DuplicateFindings(_)
DuplicateFindings(map) ==
    IF Len(map) = 0 THEN <<>>
    ELSE DuplicateFinding(map[1]) \o DuplicateFindings(Tail(map))

\* lines 260-271
DuplicateImport ==
    /\ pc = "dupimport"
    /\ issues' = PushAll(issues, DuplicateFindings(importLines))
    /\ UNCHANGED bracketStack
    /\ Step(NextPass("dupimport"))

\* new RegExp("\\b" + name + "\\b", "g") throws a SyntaxError for a name
\* whose "(" ")" do not pair or whose "[" is not closed, and for one that
\* starts with a quantifier (nothing to repeat after \b).
RECURSIVE GroupsPair(_, _, _)
GroupsPair(name, p, depth) ==
    IF p > Len(name) THEN depth = 0
    ELSE IF name[p] = "(" THEN GroupsPair(name, p + 1, depth + 1)
    ELSE IF name[p] = ")" THEN depth > 0 /\ GroupsPair(name, p + 1, depth - 1)
    ELSE IF name[p] = "["
    THEN LET close == FindClass(name, p + 1, {"]"})
         IN close <= Len(name) /\ GroupsPair(name, close + 1, depth)
    ELSE GroupsPair(name, p + 1, depth)

PatternCompiles(name) ==
    /\ GroupsPair(name, 1, 0)
    /\ ~(Len(name) > 0 /\ name[1] \in {"*", "+", "?"})

\* the characters a pattern does not take literally
RegexSpecial == {"(", ")", "[", "]", "{", "}", ".", "*", "+", "?", "|", "^", "$", "\\"}

IsLiteralName(name) == \A k \in 1..Len(name) : name[k] \notin RegexSpecial

\* (whole.match(re) || []).length for re = /\bname\b/g and a literal name:
\* the matches are taken left to right and do not overlap
RECURSIVE CountFrom(_, _, _)
CountFrom(name, whole, p) ==
    IF p > Len(whole) THEN 0
    ELSE IF /\ BoundaryAt(whole, p)
            /\ MatchAt(whole, p, name)
            /\ BoundaryAt(whole, p + Len(name))
    THEN 1 + CountFrom(name, whole, p + Len(name))
    ELSE CountFrom(name, whole, p + 1)

MatchCount(name, whole) == CountFrom(name, whole, 1)

\* lines 276-290 for one name: the catch block skips the name
UnusedImportFinding(name, whole) ==
    IF ~PatternCompiles(name) THEN <<>>
    ELSE When(MatchCount(name, whole) <= 1,
              FileFinding("Possibly Unused Import", "low",
                          "Imported name '${name}' may be unused.", <<name>>))

RECURSIVE UnusedImportFindings(_, _)
UnusedImportFindings(names, whole) ==
    IF Len(names) = 0 THEN <<>>
    ELSE UnusedImportFinding(names[1], whole)
         \o UnusedImportFindings(Tail(names), whole)

\* lines 273-291
UnusedImport ==
    /\ pc = "unusedimport"
    /\ issues' = PushAll(issues, UnusedImportFindings(importedNames, text))
    /\ UNCHANGED bracketStack
    /\ Step(NextPass("unusedimport"))

\* lines 293-302
MissingFinalNewline ==
    /\ pc = "finalnewline"
    /\ issues' = PushAll(issues,
          When(Len(text) > 0 /\ ~EndsWith(text, "\n"),
               FileFinding("Missing Final Newline", "low",
                           "File does not end with a newline.", <<>>)))
    /\ UNCHANGED bracketStack
    /\ Step(NextPass("finalnewline"))

\* lines 306-313 for the record on top
OpenerFinding(top) ==
    [rule |-> "Unmatched Bracket", severity |-> "high",
     message |-> "Unmatched opening bracket '${top.ch}'.", arg |-> <<top.ch>>,
     line |-> <<top.line>>, snippet |-> Null]

\* the while loop of lines 305-314: pops until the stack is empty
RECURSIVE PopAll(_)
PopAll(stack) ==
    IF Len(stack) = 0 THEN <<>>
    ELSE <<OpenerFinding(stack[Len(stack)])>>
         \o PopAll(Sub(stack, 1, Len(stack) - 1))

\* lines 304-314
LeftoverBrackets ==
    /\ pc = "leftover"
    /\ issues' = PushAll(issues, PopAll(bracketStack))
    /\ bracketStack' = <<>>
    /\ Step(NextPass("leftover"))


Max(a, b) == IF a > b THEN a ELSE b

\* lines 323-329: the values of nesting after each line from k on
RECURSIVE NestingTrace(_, _, _, _)
NestingTrace(ls, k, prevIndent, nesting) ==
    IF k > Len(ls) THEN <<>>
    ELSE LET cur == TabWidth(IndentOf(ls[k]))
             n2 == IF cur > prevIndent THEN nesting + 1
                   ELSE IF cur < prevIndent THEN Max(0, nesting - 1)
                   ELSE nesting
         IN <<n2>> \o NestingTrace(ls, k + 1, cur, n2)

RECURSIVE SeqMax(_)
SeqMax(q) == IF Len(q) = 0 THEN 0 ELSE Max(q[1], SeqMax(Tail(q)))

\* lines 320-329
maxNesting(ls) == SeqMax(NestingTrace(ls, 1, 0, 0))

\* line 330
NestingLimit == 4

\* lines 318-338
DeepNesting ==
    /\ pc = "nesting"
    /\ issues' = PushAll(issues,
          When(maxNesting(lines) > NestingLimit,
               FileFinding("Deep Nesting", "medium",
                   "Deep nesting detected (${maxNesting} levels). Consider simplifying or refactoring.",
                   <<maxNesting(lines)>>)))
    /\ UNCHANGED bracketStack
    /\ Step(NextPass("nesting"))

\* (text.match(/\bprint\s*\(/g) || []).length
printMatches(whole) ==
    Cardinality({p \in 1..Len(whole) :
        /\ BoundaryAt(whole, p)
        /\ MatchAt(whole, p, Kw_print)
        /\ LET q == SkipWS(whole, p + Len(Kw_print))
           IN q <= Len(whole) /\ whole[q] = "("})

\* line 342
PrintLimit == 10

\* lines 340-350
DebugPrints ==
    /\ pc = "prints"
    /\ issues' = PushAll(issues,
          When(printMatches(text) > PrintLimit,
               FileFinding("Debug Prints", "low",
                   "Many print() calls found (${printMatches}). Consider removing or using logging.",
                   <<printMatches(text)>>)))
    /\ UNCHANGED bracketStack
    /\ Step(NextPass("prints"))

\* /^return\b/.test(t)
StartsWithReturn(t) ==
    MatchAt(t, 1, Kw_return) /\ BoundaryAt(t, 1 + Len(Kw_return))

\* line 358: t.length > 0 && !/^#/.test(t)
IsCodeLine(t) == Len(t) > 0 /\ t[1] /= "#"

UnreachableFinding(k, raw) ==
    [rule |-> "Unreachable Code", severity |-> "medium",
     message |-> "Code detected after 'return' (possible unreachable code) at line ${i+1}.",
     arg |-> <<k>>, line |-> <<k>>, snippet |-> <<raw>>]

\* the loop without the reset of line 368
RECURSIVE UnreachableScanNoReset(_, _, _)
UnreachableScanNoReset(allLines, k, seenReturn) ==
    IF k > Len(allLines) THEN <<>>
    ELSE LET t == Trim(allLines[k])
         IN IF StartsWithReturn(t)
            THEN UnreachableScanNoReset(allLines, k + 1, TRUE)
            ELSE IF seenReturn /\ IsCodeLine(t)
            THEN <<UnreachableFinding(k, allLines[k])>>
                 \o UnreachableScanNoReset(allLines, k + 1, seenReturn)
            ELSE UnreachableScanNoReset(allLines, k + 1, seenReturn)

\* lines 355-370: the loop from line k on
RECURSIVE UnreachableScan(_, _, _)
UnreachableScan(allLines, k, seenReturn) ==
    IF k > Len(allLines) THEN <<>>
    ELSE LET t == Trim(allLines[k])
         IN IF StartsWithReturn(t)
            THEN UnreachableScan(allLines, k + 1, TRUE)
            ELSE IF seenReturn /\ IsCodeLine(t)
            THEN <<UnreachableFinding(k, allLines[k])>>
                 \o UnreachableScan(allLines, k + 1, FALSE)
            ELSE UnreachableScan(allLines, k + 1, seenReturn)

\* lines 352-370
UnreachableCode ==
    /\ pc = "unreachable"
    /\ issues' = PushAll(issues, UnreachableScan(lines, 1, FALSE))
    /\ UNCHANGED bracketStack
    /\ Step(NextPass("unreachable"))

\* /\b(def|class|import|from|if|for|while|return|:\b)/.test(text)
PythonTokens ==
    {Kw_def, Kw_class, Kw_import, Kw_from, Kw_if, Kw_for, Kw_while, Kw_return}

HasPythonToken(whole) ==
    \E p \in 1..Len(whole) :
        /\ BoundaryAt(whole, p)
        /\ \/ \E kw \in PythonTokens : MatchAt(whole, p, kw)
           \/ whole[p] = ":" /\ BoundaryAt(whole, p + 1)

\* line 374: the condition that enters the block of lines 375-386
LooksLikeNoCode(whole) == ~HasPythonToken(whole) /\ Len(Trim(whole)) > 0

(***************************************************************************)
(* Lines 372-387.  The regular expression literal of line 377,             *)
(*     /^[A-Za-z0-9\s\.,'":;!?-()]+$/                                      *)
(* holds the class range ?-( whose bounds are out of order (U+003F >       *)
(* U+0028): it is not a valid pattern, and evaluating the literal throws a *)
(* SyntaxError ("Range out of order in character class").  The block is    *)
(* entered when LooksLikeNoCode holds; the throw is not caught inside      *)
(* analyzePythonCode, so the call ends there and lines 378-413 do not run. *)
(* (An engine that validates literals when it parses the file rejects the  *)
(* module before any call; the model takes the later of the two points.)   *)
(***************************************************************************)
NonCodeDetection ==
    /\ pc = "noncode"
    /\ issues' = issues
    /\ UNCHANGED bracketStack
    /\ Step(IF LooksLikeNoCode(text) THEN "raised" ELSE NextPass("noncode"))

\* lines 390-399: Map name -> first line assigned, in insertion order
RECURSIVE Assigned(_, _, _)
Assigned(ls, k, map) ==
    IF k > Len(ls) THEN map
    ELSE LET m == assignMatch(ls[k])
         IN Assigned(ls, k + 1,
                IF Len(m) = 1 /\ ~(\E e \in 1..Len(map) : map[e].name = m[1])
                THEN Append(map, [name |-> m[1], defLine |-> k])
                ELSE map)

\* lines 402-412 for one entry of assigned
UnusedVariableFinding(entry, whole, ls) ==
    When(MatchCount(entry.name, whole) <= 1,
         [rule |-> "Unused Variable", severity |-> "low",
          message |-> "Variable '${name}' assigned but never used.",
          arg |-> <<entry.name>>, line |-> <<entry.defLine>>,
          snippet |-> <<ls[entry.defLine]>>])

RECURSIVE UnusedVariableFindings(_, _, _)
UnusedVariableFindings(map, whole, ls) ==
    IF Len(map) = 0 THEN <<>>
    ELSE UnusedVariableFinding(map[1], whole, ls)
         \o UnusedVariableFindings(Tail(map), whole, ls)

\* lines 389-413
UnusedVariable ==
    /\ pc = "unusedvar"
    /\ issues' = PushAll(issues,
          UnusedVariableFindings(Assigned(lines, 1, <<>>), text, lines))
    /\ UNCHANGED bracketStack
    /\ Step(NextPass("unusedvar"))

\* line 416
Return ==
    /\ pc = "return"
    /\ UNCHANGED <<issues, bracketStack>>
    /\ Step("done")

AnalyzeStep ==
    \/ ScanLine
    \/ MixedTabsSpaces
    \/ InconsistentLevels
    \/ DuplicateImport
    \/ UnusedImport
    \/ MissingFinalNewline
    \/ LeftoverBrackets
    \/ DeepNesting
    \/ DebugPrints
    \/ UnreachableCode
    \/ NonCodeDetection
    \/ UnusedVariable
    \/ Return

\* the call has ended: it returned issues, or it threw
Returned == pc = "done"
Raised == pc = "raised"
Terminated == Returned \/ Raised


(***************************************************************************)
(* Specifications of one call analyzePythonCode(text)                      *)
(***************************************************************************)
\* the texts of 1..n lines drawn from pool, joined by "\n"
TextsOf(pool, n) ==
    {JoinLines(ls) : ls \in UNION {[1..k -> pool] : k \in 1..n}}

HealthIdle == results = <<>> /\ score = <<>>

UiIdle ==
    /\ codeInput = <<>>
    /\ output = "initial"
    /\ issueCount = 0
    /\ healthNum = 78
    /\ pendingRead = <<>>
    /\ lastEvent = "none"
    /\ engineThrew = FALSE
    /\ escaped = FALSE

\* lines 4-34: the state when the per-line loop starts
EngineInit(texts) ==
    /\ text \in texts
    /\ lines = Split(text, "\n")
    /\ pc = "scan"
    /\ i = 1
    /\ issues = <<>>
    /\ hasTabs = FALSE
    /\ hasSpaces = FALSE
    /\ indentLevels = {}
    /\ importedNames = <<>>
    /\ importLines = <<>>
    /\ bracketStack = <<>>
    /\ HealthIdle
    /\ UiIdle

MaxLines == 3

LintPool ==
    {<<>>,
     <<"(">>,
     <<")">>,
     Kw_return,
     <<"x", " ", "=", " ", "5">>,
     <<"\t", "x">>,
     <<" ", "x", "\r">>,
     Kw_import \o <<" ", "o", "s">>,
     Kw_import \o <<" ", "(">>}

Init == EngineInit(TextsOf(LintPool, MaxLines))
Next == AnalyzeStep
Spec == Init /\ [][Next]_vars
(***************************************************************************)
(* minimal.js: the health score (lines 84-94)                              *)
(***************************************************************************)
Severities == {"low", "medium", "high"}

\* lines 88-90
Weight(r) ==
    IF r.severity = "high" THEN 20
    ELSE IF r.severity = "medium" THEN 10
    ELSE 5

\* lines 86-91: the forEach loop
RECURSIVE Deduction(_)
Deduction(rs) ==
    IF Len(rs) = 0 THEN 0 ELSE Weight(rs[1]) + Deduction(Tail(rs))

Min(a, b) == IF a < b THEN a ELSE b

\* lines 92-93; Math.round leaves the integer raw as it is
computeHealthNoFloor(rs) == Min(100, 100 - Deduction(rs))
computeHealthFromResults(rs) == Max(0, Min(100, 100 - Deduction(rs)))

EngineIdle ==
    /\ text = <<>>
    /\ lines = <<>>
    /\ pc = "idle"
    /\ i = 0
    /\ issues = <<>>
    /\ hasTabs = FALSE
    /\ hasSpaces = FALSE
    /\ indentLevels = {}
    /\ importedNames = <<>>
    /\ importLines = <<>>
    /\ bracketStack = <<>>

MaxFindings == 6

\* the lists of up to n findings, as far as their severity goes
ResultLists(n) ==
    UNION {[1..k -> [severity : Severities]] : k \in 0..n}

HealthInit ==
    /\ EngineIdle
    /\ UiIdle
    /\ results \in ResultLists(MaxFindings)
    /\ score = <<>>

ComputeHealth ==
    /\ score = <<>>
    /\ score' = <<computeHealthFromResults(results)>>
    /\ UNCHANGED <<results, engineVars, uiVars>>

HealthNext == ComputeHealth
HealthSpec == HealthInit /\ [][HealthNext]_vars

(***************************************************************************)
(* minimal.js: the page (lines 46-81, 140-147, 166-239).  output names     *)
(* what output.innerHTML shows.                                            *)
(***************************************************************************)
MaxShown == 2

\* what analyzeCode (imported from ./analyzer.js) can do with a text: throw,
\* or return a list of findings
EngineOutcomes ==
    {[threw |-> TRUE, result |-> <<>>]}
    \cup {[threw |-> FALSE, result |-> r] : r \in ResultLists(MaxShown)}

\* lines 46-81 with updateHealthAndChart (lines 140-147)
renderResults(rs) ==
    IF Len(rs) = 0
    THEN /\ output' = "no issues"
         /\ issueCount' = 0
         /\ healthNum' = 100
    ELSE /\ output' = "issue list"
         /\ issueCount' = Len(rs)
         /\ healthNum' = computeHealthFromResults(rs)

\* the sample of lines 211-223 and what a user can type or upload
Sample == <<"f","u","n","c","t","i","o","n">>
TypedTexts == {<<>>, <<" ">>, <<"x">>}
FileTexts == {<<"y">>, <<>>}

\* line 169: !code || code.trim() === ''
IsBlank(code) == Len(Trim(code)) = 0

\* lines 201-204: the user edits the text area
TypeCode ==
    /\ \E code \in TypedTexts : codeInput' = code
    /\ lastEvent' = "input"
    /\ engineThrew' = FALSE
    /\ escaped' = FALSE
    /\ UNCHANGED <<output, issueCount, healthNum, pendingRead,
                   engineVars, healthVars>>

\* lines 167-182
AnalyzeClick ==
    /\ lastEvent' = "analyze"
    /\ IF IsBlank(codeInput)
       THEN /\ output' = "please enter code"
            /\ issueCount' = 0
            /\ healthNum' = 100
            /\ engineThrew' = FALSE
       ELSE \E o \in EngineOutcomes :
               /\ engineThrew' = o.threw
               /\ IF o.threw
                  THEN /\ output' = "analyzer error"
                       /\ UNCHANGED <<issueCount, healthNum>>
                  ELSE renderResults(o.result)
    /\ escaped' = FALSE
    /\ UNCHANGED <<codeInput, pendingRead, engineVars, healthVars>>

\* lines 185-197 up to reader.readAsText
UploadChange ==
    /\ \E file \in FileTexts : pendingRead' = Append(pendingRead, file)
    /\ Len(pendingRead) = 0
    /\ lastEvent' = "change"
    /\ engineThrew' = FALSE
    /\ escaped' = FALSE
    /\ UNCHANGED <<codeInput, output, issueCount, healthNum,
                   engineVars, healthVars>>

\* lines 189-195: reader.onload
UploadLoaded ==
    /\ Len(pendingRead) > 0
    /\ pendingRead' = Tail(pendingRead)
    /\ codeInput' = Head(pendingRead)
    /\ lastEvent' = "upload"
    /\ \E o \in EngineOutcomes :
          /\ engineThrew' = o.threw
          /\ IF o.threw
             THEN /\ escaped' = TRUE
                  /\ UNCHANGED <<output, issueCount, healthNum>>
             ELSE /\ renderResults(o.result)
                  /\ escaped' = FALSE
    /\ UNCHANGED <<engineVars, healthVars>>

\* lines 210-228
DemoClick ==
    /\ codeInput' = Sample
    /\ lastEvent' = "demo"
    /\ \E o \in EngineOutcomes :
          /\ engineThrew' = o.threw
          /\ IF o.threw
             THEN /\ escaped' = TRUE
                  /\ UNCHANGED <<output, issueCount, healthNum>>
             ELSE /\ renderResults(o.result)
                  /\ escaped' = FALSE
    /\ UNCHANGED <<pendingRead, engineVars, healthVars>>

\* lines 233-239
ClearClick ==
    /\ codeInput' = <<>>
    /\ output' = "empty"
    /\ issueCount' = 0
    /\ healthNum' = 100
    /\ lastEvent' = "clear"
    /\ engineThrew' = FALSE
    /\ escaped' = FALSE
    /\ UNCHANGED <<pendingRead, engineVars, healthVars>>

UiInit == EngineIdle /\ HealthIdle /\ UiIdle

UiNext ==
    \/ TypeCode
    \/ AnalyzeClick
    \/ UploadChange
    \/ UploadLoaded
    \/ DemoClick
    \/ ClearClick

UiSpec == UiInit /\ [][UiNext]_vars


(***************************************************************************)
(* Properties                                                              *)
(***************************************************************************)
IsBracket(c) == c \in opens \cup closes

\* the ( [ { ) ] } characters of a text, in order
BracketsOf(whole) == SelectSeq(whole, IsBracket)

Pairs == {<<"(", ")">>, <<"[", "]">>, <<"{", "}">>}

\* a bracket string is well nested when deleting adjacent pairs of one kind,
\* again and again, leaves nothing
RECURSIVE Reduce(_)
Reduce(bs) ==
    LET adj == {k \in 1..(Len(bs) - 1) : <<bs[k], bs[k + 1]>> \in Pairs}
    IN IF adj = {} THEN bs
       ELSE LET k == CHOOSE k \in adj : TRUE
            IN Reduce(Sub(bs, 1, k - 1) \o Sub(bs, k + 2, Len(bs)))

WellNested(bs) == Reduce(bs) = <<>>

\* the findings of a rule, in output order
IsUnmatched(f) == f.rule = "Unmatched Bracket"
Unmatched(iss) == SelectSeq(iss, IsUnmatched)

\* the line number of position p of a text
LineOfPosition(whole, p) ==
    1 + Cardinality({k \in 1..(p - 1) : whole[k] = "\n"})

BracketPositions(whole) == {p \in 1..Len(whole) : IsBracket(whole[p])}

\* what C1 says of the findings a call returns
BracketVerdict ==
    /\ (Len(Unmatched(issues)) = 0) <=> WellNested(BracketsOf(text))
    /\ \A p \in BracketPositions(text) :
          BracketPositions(text) = {p} =>
             /\ Len(Unmatched(issues)) = 1
             /\ Unmatched(issues)[1].line = <<LineOfPosition(text, p)>>

\* C1: every call analyzePythonCode(T) returns findings that hold no
\* "Unmatched Bracket" finding exactly when the brackets of T are well
\* nested, and exactly one, at the bracket's line, when T has one bracket.
C1_BracketFindings == Terminated => (Returned /\ BracketVerdict)

\* C1, of the calls that return: the bracket verdict is right
C1_WhenReturned == Returned => BracketVerdict

C1_WhenReturnedSeen ==
    /\ Returned
    /\ Len(BracketsOf(text)) = 1
    /\ Len(Unmatched(issues)) = 1

FindingOk(f) ==
    /\ f.rule /= ""
    /\ f.severity \in Severities
    /\ \/ f.line = Null
       \/ Len(f.line) = 1 /\ f.line[1] \in Int /\ f.line[1] >= 1

AllFindingsOk == \A k \in 1..Len(issues) : FindingOk(issues[k])

\* the steps a call still has to take: the lines left to scan and the
\* passes left to run
PassesLeft ==
    CASE pc = "scan" -> 13
      [] pc = "mixed" -> 12
      [] pc = "levels" -> 11
      [] pc = "dupimport" -> 10
      [] pc = "unusedimport" -> 9
      [] pc = "finalnewline" -> 8
      [] pc = "leftover" -> 7
      [] pc = "nesting" -> 6
      [] pc = "prints" -> 5
      [] pc = "unreachable" -> 4
      [] pc = "noncode" -> 3
      [] pc = "unusedvar" -> 2
      [] pc = "return" -> 1
      [] OTHER -> 0

StepsLeft == PassesLeft + (IF pc = "scan" THEN Len(lines) - i ELSE 0)

\* the guards of the actions of AnalyzeStep: the per-line loop has a line to
\* scan, or a pass is due
CanStep ==
    \/ pc = "scan" /\ i <= Len(lines)
    \/ pc \in {"mixed", "levels", "dupimport", "unusedimport", "finalnewline",
               "leftover", "nesting", "prints", "unreachable", "noncode",
               "unusedvar", "return"}

\* C3: every finding has a non-empty rule, a severity among low, medium,
\* high, and a line that is null or a positive integer; and every call
\* comes to its end: until it has returned or thrown it can take a step,
\* and every step leaves fewer steps to take.
C3_FindingInvariants ==
    /\ [](AllFindingsOk /\ StepsLeft >= 0 /\ (Terminated \/ CanStep))
    /\ [][StepsLeft' < StepsLeft]_vars

C3_Seen ==
    /\ Returned
    /\ \E k \in 1..Len(issues) : issues[k].line = Null
    /\ \E k \in 1..Len(issues) : issues[k].line /= Null /\ issues[k].line[1] >= 2

IsUnusedImport(f) == f.rule = "Possibly Unused Import"

\* the imported names whose pattern cannot be built are skipped and no other
\* name is: a name that compiles and occurs at most once is reported
OnlyBadNamesSkipped ==
    \A k \in 1..Len(importedNames) :
        (PatternCompiles(importedNames[k])
            /\ MatchCount(importedNames[k], text) <= 1)
        => \E f \in 1..Len(issues) :
              IsUnusedImport(issues[f]) /\ issues[f].arg = <<importedNames[k]>>

\* C4: no call raises, and a name that cannot be turned into a pattern
\* costs only the check of that name.
C4_NeverRaises == ~Raised /\ (Returned => OnlyBadNamesSkipped)

\* C4, the part that holds: on the calls that return, only the names that
\* do not compile are skipped
C4_SkipIsLocal == Returned => OnlyBadNamesSkipped

C4_SkipSeen ==
    /\ Returned
    /\ \E k \in 1..Len(importedNames) : ~PatternCompiles(importedNames[k])
    /\ \E f \in 1..Len(issues) : IsUnusedImport(issues[f])

PerLineRules ==
    {"Trailing Whitespace", "Indentation", "Missing Colon", "Bare Except",
     "TODO/FIXME", "Use of eval/exec", "Is Comparison to Literal",
     "Line Too Long", "Shadowing Builtin", "Unmatched Bracket"}

\* the fixed order C5 gives the rules of the post-scan findings
PostOrder ==
    <<"Mixed Tabs/Spaces", "Inconsistent Indentation Levels",
      "Duplicate Import", "Possibly Unused Import", "Missing Final Newline",
      "Deep Nesting", "Debug Prints", "Unreachable Code", "TypeError-like",
      "Unused Variable">>

IndexOf(q, x) == CHOOSE k \in 1..Len(q) : q[k] = x

\* 0 for a finding of the per-line pass, else the place of its rule
RankAsClaimed(f) ==
    IF f.rule \in PerLineRules THEN 0 ELSE IndexOf(PostOrder, f.rule)

IsLeftoverOpener(f) ==
    IsUnmatched(f) /\ f.message = "Unmatched opening bracket '${top.ch}'."

\* the same with the findings of leftover openers placed where the code
\* emits them: after Missing Final Newline and before Deep Nesting
RankAsEmitted(f) ==
    IF IsLeftoverOpener(f) THEN 11
    ELSE IF f.rule \in PerLineRules THEN 0
    ELSE 2 * IndexOf(PostOrder, f.rule)

Ordered(iss, rank(_)) ==
    \A a, b \in 1..Len(iss) :
        a < b =>
           /\ rank(iss[a]) <= rank(iss[b])
           /\ (rank(iss[a]) = 0 /\ rank(iss[b]) = 0)
                 => iss[a].line[1] <= iss[b].line[1]

\* C5 as stated: all per-line findings, every "Unmatched Bracket" finding
\* among them, come first in non-decreasing line order; the post-scan
\* findings follow in the fixed order of their rules.
C5_OrderAsClaimed == Returned => Ordered(issues, RankAsClaimed)

\* C5: the per-line findings (with the "Unmatched Bracket" findings of
\* closing brackets) come first in non-decreasing line order; the post-scan
\* findings follow in the order Mixed Tabs/Spaces, Inconsistent Indentation
\* Levels, Duplicate Import, Possibly Unused Import, Missing Final Newline,
\* Unmatched Bracket of leftover openers, Deep Nesting, Debug Prints,
\* Unreachable Code, TypeError-like, Unused Variable.
C5_OrderAsEmitted == Returned => Ordered(issues, RankAsEmitted)

C5_Seen ==
    /\ Returned
    /\ \E a, b, c \in 1..Len(issues) :
          /\ a < b /\ b < c
          /\ issues[a].rule = "Indentation"
          /\ issues[b].rule = "Missing Final Newline"
          /\ IsLeftoverOpener(issues[c])


CountSeverity(rs, sev) == Cardinality({k \in 1..Len(rs) : rs[k].severity = sev})

\* max(0, min(100, 100 - (20 high + 10 medium + 5 low)))
ClaimedScore(rs) ==
    LET raw == 100 - (20 * CountSeverity(rs, "high")
                      + 10 * CountSeverity(rs, "medium")
                      + 5 * CountSeverity(rs, "low"))
    IN IF raw < 0 THEN 0 ELSE IF raw > 100 THEN 100 ELSE raw

\* C2: computeHealthFromResults(F) is max(0, min(100, 100 - (20 high +
\* 10 medium + 5 low))): an integer in 0..100, 100 for no finding, 80 for
\* one high finding, 0 for five or more high findings.
C2_HealthScore ==
    score /= <<>> =>
       /\ score[1] = ClaimedScore(results)
       /\ score[1] \in 0..100
       /\ Len(results) = 0 => score[1] = 100
       /\ results = <<[severity |-> "high"]>> => score[1] = 80
       /\ CountSeverity(results, "high") >= 5 => score[1] = 0

C2_Seen ==
    /\ score = <<0>>
    /\ CountSeverity(results, "high") = 6

(***************************************************************************)
(* The Unreachable Code pass, over texts of return, code, comment and      *)
(* blank lines                                                             *)
(***************************************************************************)
MaxReturnLines == 4

ReturnPool ==
    {<<>>,
     Kw_return,
     <<"x">>,
     <<"#">>,
     Kw_return \o <<"s">>,
     <<"\t">> \o Kw_return \o <<"\r">>}

ReturnInit == EngineInit(TextsOf(ReturnPool, MaxReturnLines))
ReturnSpec == ReturnInit /\ [][Next]_vars

UnreachableDone == pc \in {"noncode", "unusedvar", "return", "done", "raised"}

IsUnreachable(f) == f.rule = "Unreachable Code"
Unreachables == SelectSeq(issues, IsUnreachable)

\* a line that is non-empty after trimming and is not a comment line
Significant(l) == Len(Trim(l)) > 0 /\ Trim(l)[1] /= "#"

\* a line that starts with the word return
ReturnLine(l) ==
    LET t == Trim(l)
    IN /\ Len(t) >= 6
       /\ Sub(t, 1, 6) = Kw_return
       /\ (Len(t) = 6 \/ t[7] \notin WordChars)

\* what C6 says of line k
ExpectedUnreachable(k) ==
    /\ Significant(lines[k])
    /\ ~ReturnLine(lines[k])
    /\ \E m \in 1..(k - 1) :
          /\ Significant(lines[m])
          /\ ReturnLine(lines[m])
          /\ \A n \in (m + 1)..(k - 1) : ~Significant(lines[n])

C7_Snippets ==
    Returned =>
       \A k \in 1..Len(issues) :
          IF issues[k].line = Null
          THEN issues[k].snippet = Null
          ELSE issues[k].snippet = <<StripCR(lines[issues[k].line[1]])>>

(***************************************************************************)
(* Duplicate imports, over texts of import lines                           *)
(***************************************************************************)
MaxImportLines == 3

ImportPool ==
    {<<>>,
     Kw_import \o <<" ", "o", "s">>,
     Kw_import \o <<" ", "o", "s", "\r">>,
     <<" ">> \o Kw_import \o <<" ", "o", "s">>,
     Kw_from \o <<" ", "m", " ">> \o Kw_import \o <<" ", "o", "s">>,
     <<"o", "s">>}

ImportInit == EngineInit(TextsOf(ImportPool, MaxImportLines))
ImportSpec == ImportInit /\ [][Next]_vars

IsDuplicateImport(f) == f.rule = "Duplicate Import"

\* the lines of the text whose content, without a trailing carriage return,
\* is x
Occurrences(x) == {k \in 1..Len(lines) : StripCR(lines[k]) = x}

First(S) == CHOOSE k \in S : \A m \in S : k <= m

\* the Duplicate Import findings for the statement text x
DuplicatesOf(x) ==
    {k \in 1..Len(issues) :
        IsDuplicateImport(issues[k]) /\ issues[k].snippet = <<x>>}

\* C8: for every import statement text the scan has recorded: when it
\* occurs k > 1 times, the output has exactly one "Duplicate Import"
\* finding for it, citing k, at the line of its first occurrence; when it
\* occurs once, none.
C8_DuplicateImport ==
    (Terminated /\ Len(importLines) > 0) =>
       /\ Returned
       /\ \A e \in 1..Len(importLines) :
             LET x == importLines[e].text
                 k == Cardinality(Occurrences(x))
             IN IF k > 1
                THEN /\ Cardinality(DuplicatesOf(x)) = 1
                     /\ \A d \in DuplicatesOf(x) :
                           /\ issues[d].arg = <<k>>
                           /\ issues[d].line = <<First(Occurrences(x))>>
                ELSE DuplicatesOf(x) = {}

\* the same statement on lines 2 and 3, the second time with a carriage
\* return
C8_Seen ==
    /\ Returned
    /\ \E d \in 1..Len(issues) :
          /\ IsDuplicateImport(issues[d])
          /\ issues[d].arg = <<2>>
          /\ issues[d].line = <<2>>

IsUnusedVariable(f) == f.rule = "Unused Variable"

\* the name a simple top-level assignment  name = ...  introduces on a
\* line: <<>> or <<name>>
TopLevelAssignment(l) ==
    LET e == SkipClass(l, 1, WordChars)
        q == SkipClass(l, e, WhiteSpace)
    IN IF /\ Len(l) > 0
          /\ l[1] \in Letters \cup {"_"}
          /\ q <= Len(l)
          /\ l[q] = "="
       THEN <<Sub(l, 1, e - 1)>>
       ELSE <<>>

\* the places where n stands in a text as a whole word
WholeWordPlaces(n, whole) ==
    {p \in 1..(Len(whole) - Len(n) + 1) :
        /\ Sub(whole, p, p + Len(n) - 1) = n
        /\ (p = 1 \/ whole[p - 1] \notin WordChars)
        /\ (p + Len(n) > Len(whole) \/ whole[p + Len(n)] \notin WordChars)}

UnusedVariablesFor(n) ==
    {k \in 1..Len(issues) : IsUnusedVariable(issues[k]) /\ issues[k].arg = <<n>>}

\* what C9 says of the findings a call returns
UnusedVerdict ==
    \A d \in 1..Len(lines) :
       LET m == TopLevelAssignment(lines[d])
       IN (Len(m) = 1 /\ \A c \in 1..(d - 1) : TopLevelAssignment(lines[c]) /= m)
          => IF Cardinality(WholeWordPlaces(m[1], text)) <= 1
             THEN /\ Cardinality(UnusedVariablesFor(m[1])) = 1
                  /\ \A k \in UnusedVariablesFor(m[1]) : issues[k].line = <<d>>
             ELSE UnusedVariablesFor(m[1]) = {}

\* C9: for every name a simple top-level assignment introduces, the output
\* has exactly one "Unused Variable" finding, at the line of its first
\* assignment, when the name occurs at most once as a whole word in the
\* text, and none when it occurs more often.
C9_UnusedVariable == Terminated => (Returned /\ UnusedVerdict)

\* C9, of the calls that return
C9_WhenReturned == Returned => UnusedVerdict

C9_WhenReturnedSeen ==
    /\ Returned
    /\ \E k \in 1..Len(issues) : IsUnusedVariable(issues[k])

\* C10: when the engine call of an Analyze click, a loaded upload or a Demo
\* click throws, the handler catches the exception and shows the error
\* state, which is not the "no issues" state.
C10_ErrorsCaught ==
    (lastEvent \in {"analyze", "upload", "demo"} /\ engineThrew) =>
       /\ ~escaped
       /\ output = "analyzer error"
       /\ output /= "no issues"

\* C10, the handler that does catch: the Analyze click
C10_AnalyzeCatches ==
    (lastEvent = "analyze" /\ engineThrew) =>
       ~escaped /\ output = "analyzer error"


\* every imported name the texts give is either taken literally by the
\* pattern, which MatchCount counts, or does not compile
PatternsInDomain ==
    \A k \in 1..Len(importedNames) :
        IsLiteralName(importedNames[k]) \/ ~PatternCompiles(importedNames[k])


(***************************************************************************)
(* The Deep Nesting pass, over texts of lines of rising indentation        *)
(***************************************************************************)
MaxNestLines == 5

\* lines of widths 0, 0 (a blank line of a CRLF file), 2, 3, 4 and 5
NestPool ==
    {<<"x">>,
     <<"\r">>,
     <<" ", " ">> \o Kw_if,
     <<" ", " ", " ", "x">>,
     <<"\t", "x">>,
     <<"\t", " ", "x">>}

NestInit == EngineInit(TextsOf(NestPool, MaxNestLines))
NestSpec == NestInit /\ [][Next]_vars

NestingDone ==
    pc \in {"prints", "unreachable", "noncode", "unusedvar", "return", "done", "raised"}

IsDeepNesting(f) == f.rule = "Deep Nesting"
DeepNestings == SelectSeq(issues, IsDeepNesting)

\* the indentation width of a line, tabs as 4 columns: of the line without
\* its trailing carriage return, and of the line as split
Width(l) == TabWidth(IndentOf(StripCR(l)))
RawWidth(l) == TabWidth(IndentOf(l))

WidthsOf(ls) == [k \in 1..Len(ls) |-> Width(ls[k])]
RawWidthsOf(ls) == [k \in 1..Len(ls) |-> RawWidth(ls[k])]

\* the counter of C11 after the first k lines of widths ws
RECURSIVE Counter(_, _)
Counter(ws, k) ==
    IF k = 0 THEN 0
    ELSE LET prev == IF k = 1 THEN 0 ELSE ws[k - 1]
             c == Counter(ws, k - 1)
         IN IF ws[k] > prev THEN c + 1
            ELSE IF ws[k] < prev THEN (IF c > 0 THEN c - 1 ELSE 0)
            ELSE c

CounterValues(ws) == {Counter(ws, k) : k \in 0..Len(ws)}
CounterMax(ws) == CHOOSE m \in CounterValues(ws) : \A v \in CounterValues(ws) : v <= m

\* what C11 says of the findings, for the widths ws
NestingVerdict(ws) ==
    /\ \A v \in CounterValues(ws) : v >= 0
    /\ Len(DeepNestings) = (IF CounterMax(ws) > 4 THEN 1 ELSE 0)
    /\ \A k \in 1..Len(DeepNestings) : DeepNestings[k].arg = <<CounterMax(ws)>>

\* C11: the counter starts at 0 with previous indentation 0, goes up by 1
\* when a line's indentation width (tabs as 4 columns, the trailing carriage
\* return stripped) is greater than the previous line's, down by 1 but not
\* below 0 when it is smaller, and stays when equal; it is never negative,
\* and there is exactly one "Deep Nesting" finding if its maximum exceeds 4,
\* none otherwise.
C11_DeepNesting == NestingDone => NestingVerdict(WidthsOf(lines))

\* C11 with the width the pass computes: the leading whitespace of the line
\* as split on "\n", where the carriage return of a whitespace-only line is
\* one more column
C11_OnRawLines == NestingDone => NestingVerdict(RawWidthsOf(lines))

\* a call that returns a "Deep Nesting" finding of 5 levels for a text whose
\* lines have four rising widths after a blank line
C11_OnRawLinesSeen ==
    /\ Returned
    /\ Len(DeepNestings) = 1
    /\ DeepNestings[1].arg = <<5>>
    /\ CounterMax(WidthsOf(lines)) = 4

\* the counter is held at 0 by a line narrower than the one before
C11_FloorSeen ==
    /\ NestingDone
    /\ \E k \in 2..Len(lines) :
          /\ RawWidth(lines[k]) < RawWidth(lines[k - 1])
          /\ Counter(RawWidthsOf(lines), k - 1) = 0


(***************************************************************************)
(* The bracket stack during the scan, over texts of bracket lines          *)
(***************************************************************************)
MaxBracketLines == 3

BracketPool ==
    {<<"(">>,
     <<")">>,
     <<"]">>,
     <<"(", "]", ")">>,
     Kw_if,
     Kw_if \o <<" ", "(">>}

BracketInit == EngineInit(TextsOf(BracketPool, MaxBracketLines))
BracketSpec == BracketInit /\ [][Next]_vars

\* the bracket characters of the records of a stack, bottom first
KindsOf(stack) == [k \in 1..Len(stack) |-> stack[k].ch]

OpenerOf(c) == CHOOSE o \in opens : <<o, c>> \in Pairs

\* a closer that meets an empty stack or a top of a different kind
Rejects(kinds, c) == Len(kinds) = 0 \/ kinds[Len(kinds)] /= OpenerOf(c)

\* the stack after the brackets bs, as C12 has it: an opener goes on top, a
\* rejected closer changes nothing, any other closer takes the top off
RECURSIVE StackAfter(_, _)
StackAfter(bs, kinds) ==
    IF Len(bs) = 0 THEN kinds
    ELSE StackAfter(Tail(bs),
            IF bs[1] \in opens THEN Append(kinds, bs[1])
            ELSE IF Rejects(kinds, bs[1]) THEN kinds
            ELSE Sub(kinds, 1, Len(kinds) - 1))

\* the closers among bs that are rejected
RECURSIVE RejectedIn(_, _)
RejectedIn(bs, kinds) ==
    IF Len(bs) = 0 THEN 0
    ELSE (IF bs[1] \in closes /\ Rejects(kinds, bs[1]) THEN 1 ELSE 0)
            + RejectedIn(Tail(bs), StackAfter(<<bs[1]>>, kinds))

\* one turn of the per-line loop, seen from the stack: it starts from the
\* stack the earlier lines left and ends with the stack C12 describes, with
\* one more finding for each rejected closer and none for the others
StackFrame ==
    pc = "scan" =>
       LET bs == BracketsOf(lines[i])
       IN /\ KindsOf(bracketStack') = StackAfter(bs, KindsOf(bracketStack))
          /\ Len(Unmatched(issues')) =
                Len(Unmatched(issues)) + RejectedIn(bs, KindsOf(bracketStack))

\* the text "(])" and the same brackets on three lines
Example1 == <<"(", "]", ")">>
Example3 == <<"(", "\n", "]", "\n", ")">>

\* the example when the scan and the leftover pass are over: one finding,
\* for the "]", and an empty stack
ExampleInScan ==
    (text \in {Example1, Example3} /\ pc /= "scan") =>
        /\ Len(Unmatched(issues)) = 1
        /\ Unmatched(issues)[1].arg = <<"]">>
        /\ bracketStack = <<>>

C12_ExampleSeen ==
    /\ text = Example1
    /\ pc = "raised"
    /\ Len(Unmatched(issues)) = 1

=============================================================================
